---------------------------- MODULE Spec2Model ----------------------------
(***************************************************************************)
(* The EVM transaction pipeline of the wallet's shared currency library:   *)
(* the raw transaction codec (fromTransactionRaw / toTransactionRaw), the  *)
(* fee classification (getTypedTransaction) and the prepare pipeline       *)
(* (prepareTransaction, prepareCoinTransaction, prepareTokenTransaction).  *)
(*                                                                         *)
(* A JavaScript object is a function from the names of its own properties  *)
(* to their values: an absent property is a name outside the DOMAIN.       *)
(* A BigNumber is an integer; the not-a-number value is NaN.  A string of  *)
(* the raw form that holds a number is a sequence of characters, so that   *)
(* formatting and parsing are computed and not assumed.                    *)
(***************************************************************************)
EXTENDS Integers, Sequences, FiniteSets, TLC

VARIABLES
    cTx,     \* codec: the transaction handed to toTransactionRaw (Absent if none)
    cRaw,    \* codec: the raw form (produced by toTransactionRaw or received)
    cOut,    \* codec: the transaction returned by fromTransactionRaw
    cPc,     \* codec: "off" | "tx" | "raw" | "parsed"
    pc,      \* prepareTransaction: the state of the invocation
    draft0,  \* the caller's draft as it was when prepareTransaction was called
    draft,   \* the caller's draft object, as it is now
    feeData, \* the FeeData snapshot getFeesEstimation returned
    store,   \* the balances read from the account store so far
    path,    \* "" | "coin" | "token"
    typed,   \* typedTransaction, the classified transaction
    gasReq,  \* the transaction getGasEstimation was called with
    result,  \* the transaction prepareTransaction returned
    error,   \* the error prepareTransaction failed with ("" if none)
    estimate, \* the gas limit getGasEstimation returned (Absent before)
    netError, \* the error a network request was rejected with ("" if none)
    feeReqs, \* the number of fee-data requests issued so far
    gasReqs, \* the number of gas-estimate requests issued so far
    inFlight, \* the network requests awaiting their response
    sPc,     \* signing: "off" | "prepareForSignOperation" | "prepared" |
             \*          "getTransactionCount" | "unsigned" | "failed"
    sTx,     \* signing: the transaction handed to the operation
    sOut,    \* signing: the transaction the operation returned
    sReq,    \* signing: the address getTransactionCount was called with
    sNonce,  \* signing: the transaction count the network answered
    sError,  \* signing: the error the operation failed with ("" if none)
    calls,   \* concurrent prepares: the state of each invocation
    typedTransactions, \* concurrent prepares: the typedTransaction locals
    dState,  \* devices reducer: the DevicesState of the store
    dPrev,   \* devices reducer: the state the last action was reduced from
    dAction, \* devices reducer: the last action dispatched
    dListOnly, \* devices reducer: no SET_CURRENT_DEVICE was dispatched so far
    mState,  \* manifest provider: the Loadable state of RemoteLiveAppProvider
    mFetches, \* manifest provider: the updateManifests calls, in starting order
    wStage,  \* wallet API server: "off" | "idle" | "ui" | "broadcasting" | "done"
    wReq,    \* wallet API server: the request being handled
    wUiCalls, \* wallet API server: the UI hooks invoked for the request
    wResp,   \* wallet API server: how the request's promise was settled
    wSign,   \* wallet API server: "" | "succeeded" | "failed" (signing)
    wBroadcast, \* wallet API server: "" | "succeeded" | "failed" (broadcast)
    wFailure, \* wallet API server: the error signing or broadcasting raised
    tRef,    \* device transport: ref.current, "undefined" or "open"
    tSeen,   \* device transport: device.subject$, ref.current at the last render
    gPc,     \* gate check: "off" | "listSuites" | "listRuns" | "update" | "done" | "failed"
    gRuns,   \* gate check: the check runs of the bot's suite, as listed
    gUpdate  \* gate check: the update sent for the gate check run

codecVars == <<cTx, cRaw, cOut, cPc>>

prepVars ==
    <<pc, draft0, draft, feeData, store, path, typed, gasReq, result, error,
      estimate, netError, feeReqs, gasReqs, inFlight>>

signVars == <<sPc, sTx, sOut, sReq, sNonce, sError>>

concVars == <<calls, typedTransactions>>

evmVars == <<codecVars, prepVars, signVars, concVars>>

devVars == <<dState, dPrev, dAction, dListOnly>>

manVars == <<mState, mFetches>>

walletVars ==
    <<wStage, wReq, wUiCalls, wResp, wSign, wBroadcast, wFailure, tRef, tSeen>>

gateVars == <<gPc, gRuns, gUpdate>>

appVars == <<devVars, manVars, walletVars, gateVars>>

\* The variables other than those of the devices reducer.
exceptDevVars == <<evmVars, manVars, walletVars, gateVars>>

\* The variables other than those of the manifest provider.
exceptManVars == <<evmVars, devVars, walletVars, gateVars>>

\* The variables other than those of the wallet API server.
exceptWalletVars == <<evmVars, devVars, manVars, gateVars>>

\* The variables other than those of the gate check run.
exceptGateVars == <<evmVars, devVars, manVars, walletVars>>

vars == <<evmVars, appVars>>

(***************************************************************************)
(* Bounds of the model.                                                    *)
(***************************************************************************)
MaxFee == 1        \* per-gas prices range over 0..MaxFee
MaxNum == 11       \* gas limits of the codec range over 0..MaxNum (two digits)
MaxDataLen == 1    \* payloads of the codec hold at most MaxDataLen bytes
MaxAmount == 1     \* a draft's amount ranges over 0..MaxAmount
MaxBalance == 2    \* account and token balances range over 0..MaxBalance
MaxGas == 1        \* gas limits and gas estimates range over 0..MaxGas
MaxNonce == 2      \* transaction counts range over 0..MaxNonce
MaxFetches == 3    \* updateManifests is called at most MaxFetches times
MaxRuns == 3       \* a check suite lists at most MaxRuns check runs

(***************************************************************************)
(* JavaScript objects.                                                     *)
(***************************************************************************)
Absent == << >>

Has(o, k) == k \in DOMAIN o

\* delete o.k
Delete(o, k) == [f \in DOMAIN o \ {k} |-> o[f]]

\* { ...o, ...p }
Spread(o, p) ==
    [f \in DOMAIN o \cup DOMAIN p |-> IF f \in DOMAIN p THEN p[f] ELSE o[f]]

FeeFields == {"gasPrice", "maxFeePerGas", "maxPriorityFeePerGas"}

\* The signing operations and the concurrent prepares are not running.
SignOff ==
    /\ sPc = "off" /\ sTx = Absent /\ sOut = Absent /\ sReq = Absent
    /\ sNonce = Absent /\ sError = ""

ConcOff == calls = Absent /\ typedTransactions = Absent

\* The reducers and providers of the applications are not running.
DevicesOff ==
    dState = Absent /\ dPrev = Absent /\ dAction = Absent /\ dListOnly = TRUE

ManifestsOff == mState = Absent /\ mFetches = Absent

WalletOff ==
    /\ wStage = "off" /\ wReq = Absent /\ wUiCalls = Absent /\ wResp = Absent
    /\ wSign = "" /\ wBroadcast = "" /\ wFailure = ""
    /\ tRef = "undefined" /\ tSeen = "undefined"

GateOff == gPc = "off" /\ gRuns = Absent /\ gUpdate = Absent

AppOff == DevicesOff /\ ManifestsOff /\ WalletOff /\ GateOff

(***************************************************************************)
(* Numbers and strings.                                                    *)
(***************************************************************************)
\* The not-a-number value of BigNumber and Number.  Every number the codec
\* parses from a string of digits is >= 0, so -1 stands apart from them all.
NaN == -1

Digits == <<"0", "1", "2", "3", "4", "5", "6", "7", "8", "9">>

HexDigits == Digits \o <<"a", "b", "c", "d", "e", "f">>

IsDigit(c) == \E d \in 1..10 : Digits[d] = c

IsHexDigit(c) == \E d \in 1..16 : HexDigits[d] = c

DigitVal(c) == (CHOOSE d \in 1..16 : HexDigits[d] = c) - 1

\* BigNumber.prototype.toFixed() of an integer n >= 0: its decimal digits.
RECURSIVE toFixed(_)
toFixed(n) ==
    IF n < 10 THEN <<Digits[n + 1]>>
    ELSE Append(toFixed(n \div 10), Digits[(n % 10) + 1])

RECURSIVE DecVal(_)
DecVal(s) ==
    IF s = << >> THEN 0
    ELSE DecVal(SubSeq(s, 1, Len(s) - 1)) * 10 + DigitVal(s[Len(s)])

IsDecimal(s) == s # << >> /\ \A i \in 1..Len(s) : IsDigit(s[i])

\* new BigNumber(s) of a string s: never throws, NaN when s is no number.
BigNumber(s) == IF IsDecimal(s) THEN DecVal(s) ELSE NaN

\* Number(v) of the raw form's type: v is [num |-> n] (a number), [str |-> s]
\* (a string) or Absent (undefined).  Number("") is 0, Number(undefined) is NaN.
Number(v) ==
    IF Has(v, "num") THEN v.num
    ELSE IF Has(v, "str")
         THEN (IF v.str = << >> THEN 0 ELSE BigNumber(v.str))
         ELSE NaN

\* Buffer.prototype.toString("hex")
RECURSIVE toHex(_)
toHex(bytes) ==
    IF bytes = << >> THEN << >>
    ELSE <<HexDigits[(Head(bytes) \div 16) + 1], HexDigits[(Head(bytes) % 16) + 1]>>
         \o toHex(Tail(bytes))

\* Buffer.from(s, "hex"): decodes pairs of hex digits, stops at the first
\* pair that is not one.
RECURSIVE fromHex(_)
fromHex(s) ==
    IF Len(s) < 2 \/ ~IsHexDigit(s[1]) \/ ~IsHexDigit(s[2]) THEN << >>
    ELSE <<DigitVal(s[1]) * 16 + DigitVal(s[2])>> \o fromHex(SubSeq(s, 3, Len(s)))

(***************************************************************************)
(* The raw transaction codec.                                              *)
(***************************************************************************)
\* The part of a transaction every coin family shares.
fromTransactionCommonRaw(raw) ==
    LET common == [amount |-> BigNumber(raw.amount), recipient |-> raw.recipient]
        c1 == IF Has(raw, "useAllAmount")
              THEN Spread(common, [useAllAmount |-> raw.useAllAmount]) ELSE common
    IN  IF Has(raw, "subAccountId")
        THEN Spread(c1, [subAccountId |-> raw.subAccountId]) ELSE c1

toTransactionCommonRaw(tx) ==
    LET common == [amount |-> toFixed(tx.amount), recipient |-> tx.recipient]
        c1 == IF Has(tx, "useAllAmount")
              THEN Spread(common, [useAllAmount |-> tx.useAllAmount]) ELSE common
    IN  IF Has(tx, "subAccountId")
        THEN Spread(c1, [subAccountId |-> tx.subAccountId]) ELSE c1

\* if (rawTx.f) tx.f = new BigNumber(rawTx.f): a string is truthy unless empty.
ParseFee(tx, raw, f) ==
    IF Has(raw, f) /\ raw[f] # << >>
    THEN Spread(tx, [k \in {f} |-> BigNumber(raw[f])]) ELSE tx

fromTransactionRaw(rawTx) ==
    LET common == fromTransactionCommonRaw(rawTx)
        tx == Spread(common,
                [family |-> rawTx.family,
                 mode |-> rawTx.mode,
                 chainId |-> rawTx.chainId,
                 nonce |-> rawTx.nonce,
                 gasLimit |-> BigNumber(rawTx.gasLimit),
                 feesStrategy |-> rawTx.feesStrategy,
                 type |-> Number(IF Has(rawTx, "type") THEN rawTx.type ELSE Absent)])
        t1 == IF Has(rawTx, "data") /\ rawTx.data # << >>
              THEN Spread(tx, [data |-> fromHex(rawTx.data)]) ELSE tx
        t2 == ParseFee(t1, rawTx, "gasPrice")
        t3 == ParseFee(t2, rawTx, "maxFeePerGas")
    IN  ParseFee(t3, rawTx, "maxPriorityFeePerGas")

\* The slip of testing the fee's value instead of its presence.
FormatFeeNonZero(txRaw, tx, f) ==
    IF Has(tx, f) /\ tx[f] # 0
    THEN Spread(txRaw, [k \in {f} |-> toFixed(tx[f])]) ELSE txRaw

\* if (tx.f) txRaw.f = tx.f?.toFixed(): a BigNumber object is truthy, zero
\* included.
FormatFee(txRaw, tx, f) ==
    IF Has(tx, f) THEN Spread(txRaw, [k \in {f} |-> toFixed(tx[f])]) ELSE txRaw

toTransactionRaw(tx) ==
    LET common == toTransactionCommonRaw(tx)
        r0 == Spread(common,
                [family |-> tx.family,
                 mode |-> tx.mode,
                 chainId |-> tx.chainId,
                 nonce |-> tx.nonce,
                 gasLimit |-> toFixed(tx.gasLimit),
                 feesStrategy |-> tx.feesStrategy])
        txRaw == IF Has(tx, "type") THEN Spread(r0, [type |-> [num |-> tx.type]]) ELSE r0
        \* if (tx.data): a Buffer object is truthy, the empty one included
        r1 == IF Has(tx, "data") THEN Spread(txRaw, [data |-> toHex(tx.data)]) ELSE txRaw
        r2 == FormatFee(r1, tx, "gasPrice")
        r3 == FormatFee(r2, tx, "maxFeePerGas")
    IN  FormatFee(r3, tx, "maxPriorityFeePerGas")

(***************************************************************************)
(* The inputs of the codec.                                                *)
(***************************************************************************)
Bytes == {0, 171}

RECURSIVE SeqsUpTo(_, _)
SeqsUpTo(S, n) ==
    IF n = 0 THEN {<< >>}
    ELSE LET shorter == SeqsUpTo(S, n - 1)
         IN  shorter \cup {Append(q, x) : q \in {r \in shorter : Len(r) = n - 1}, x \in S}

\* The objects whose properties are among K, each with a value of V.
Objects(K, V) == UNION {[S -> V] : S \in SUBSET K}

CodecBase ==
    [family |-> "evm", mode |-> "send", chainId |-> 1, nonce |-> 0,
     feesStrategy |-> "medium", recipient |-> "0xbob", useAllAmount |-> FALSE]

\* The valid transactions: every combination of present and absent data and
\* fee fields, the empty payload and the zero fees included.
CodecTransactions ==
    {Spread(Spread(Spread(CodecBase, [amount |-> a, gasLimit |-> g, type |-> t]), d), fees) :
        a \in {0, MaxNum}, g \in 0..MaxNum, t \in {0, 2},
        d \in Objects({"data"}, SeqsUpTo(Bytes, MaxDataLen)),
        fees \in Objects(FeeFields, 0..MaxFee)}

RawBase ==
    [family |-> "evm", mode |-> "send", chainId |-> 1, nonce |-> 0,
     feesStrategy |-> "medium", recipient |-> "0xbob", useAllAmount |-> FALSE,
     amount |-> <<"7">>]

\* The strings a raw form received from storage or another process may hold
\* in a numeric field: decimal strings, the empty string, strings that are
\* no number.
RawStrings == {<<"0">>, <<"1", "0">>, << >>, <<"x">>, <<"1", "x">>}

RawTypes == {[num |-> 0], [num |-> 2], [str |-> <<"2">>], [str |-> <<"x">>], [str |-> << >>]}

ReceivedRaws ==
    {Spread(Spread(Spread(RawBase, [gasLimit |-> g]), t), fee) :
        g \in RawStrings,
        t \in Objects({"type"}, RawTypes),
        fee \in Objects({"gasPrice"}, RawStrings)}

(***************************************************************************)
(* The codec's operations.                                                 *)
(***************************************************************************)
CodecOff == cTx = Absent /\ cRaw = Absent /\ cOut = Absent /\ cPc = "off"

InitCodec ==
    /\ cOut = Absent
    /\ \/ cTx \in CodecTransactions /\ cRaw = Absent /\ cPc = "tx"
       \/ cTx = Absent /\ cRaw \in ReceivedRaws /\ cPc = "raw"

ToRaw ==
    /\ cPc = "tx"
    /\ cRaw' = toTransactionRaw(cTx)
    /\ cPc' = "raw"
    /\ UNCHANGED <<cTx, cOut>>
    /\ UNCHANGED <<prepVars, signVars, concVars, appVars>>

FromRaw ==
    /\ cPc = "raw"
    /\ cOut' = fromTransactionRaw(cRaw)
    /\ cPc' = "parsed"
    /\ UNCHANGED <<cTx, cRaw>>
    /\ UNCHANGED <<prepVars, signVars, concVars, appVars>>

(***************************************************************************)
(* The account store and the validation engine.                            *)
(***************************************************************************)
Self == "0xself"

Bob == "0xbob"

Contract == "0xtoken"

SubAccounts ==
    <<[id |-> "tok", type |-> "TokenAccount", token |-> [contractAddress |-> Contract]],
      [id |-> "child", type |-> "ChildAccount"]>>

\* The account, but for its balance.
AccountIdentity == [type |-> "Account", freshAddress |-> Self, subAccounts |-> SubAccounts]

\* The account with balance b, and its token account with balance t.
Account(b) == Spread(AccountIdentity, [balance |-> b])

TokenAccount(t) == Spread(SubAccounts[1], [balance |-> t])

\* The sub-account of that id, Absent (undefined) when there is none.
findSubAccountById(subAccounts, id) ==
    IF \E i \in 1..Len(subAccounts) : subAccounts[i].id = id
    THEN subAccounts[CHOOSE i \in 1..Len(subAccounts) : subAccounts[i].id = id]
    ELSE Absent

IsAddress(r) == r \in {Self, Bob, Contract}

NoErrors == << >>

\* The recipient check: the mapping of field to error, empty when it passes.
validateRecipient(account, transaction) ==
    IF transaction.recipient = "" THEN [recipient |-> "RecipientRequired"]
    ELSE IF ~IsAddress(transaction.recipient) THEN [recipient |-> "InvalidAddressFormat"]
    ELSE IF transaction.recipient = account.freshAddress
         THEN [recipient |-> "RecipientIsSenderAddress"]
    ELSE NoErrors

\* The amount check.  The amount that must not be zero is the amount being
\* sent: a token transfer's transaction carries none of the base asset, and
\* what it sends is the total it is checked with.
validateAmount(account, transaction, totalSpent) ==
    LET sent == IF account.type = "TokenAccount" THEN totalSpent ELSE transaction.amount
    IN  IF totalSpent > account.balance THEN [amount |-> "NotEnoughBalance"]
        ELSE IF sent = 0 /\ ~transaction.useAllAmount THEN [amount |-> "AmountRequired"]
        ELSE NoErrors

\* Object.keys(errors).length
HasErrors(errors) == DOMAIN errors # {}

\* The fee a transaction pays at most: its gas limit times its price per gas.
getEstimatedFees(tx) ==
    IF tx.type = 2
    THEN (IF Has(tx, "maxFeePerGas") THEN tx.maxFeePerGas * tx.gasLimit ELSE 0)
    ELSE (IF Has(tx, "gasPrice") THEN tx.gasPrice * tx.gasLimit ELSE 0)

(***************************************************************************)
(* Fee classification.                                                     *)
(***************************************************************************)
\* feeData.maxFeePerGas && feeData.maxPriorityFeePerGas: a field of the
\* snapshot is a BigNumber (truthy, zero included) or null (no property here).
IsFeeMarket(fd) == Has(fd, "maxFeePerGas") /\ Has(fd, "maxPriorityFeePerGas")

\* The slip of leaving the other fee model's fields on the transaction.
getTypedTransactionNoDelete(transaction, fd) ==
    IF IsFeeMarket(fd)
    THEN Spread(transaction,
                [maxFeePerGas |-> fd.maxFeePerGas,
                 maxPriorityFeePerGas |-> fd.maxPriorityFeePerGas,
                 type |-> 2])
    ELSE Spread(transaction,
                [gasPrice |-> IF Has(fd, "gasPrice") THEN fd.gasPrice ELSE 0,
                 type |-> 0])

\* The slip of || for &&: fee-market as soon as one of its fields is there.
getTypedTransactionEither(transaction, fd) ==
    IF Has(fd, "maxFeePerGas") \/ Has(fd, "maxPriorityFeePerGas")
    THEN Spread(Spread(Delete(transaction, "gasPrice"), [type |-> 2]),
                [f \in DOMAIN fd \ {"gasPrice"} |-> fd[f]])
    ELSE Spread(Delete(Delete(transaction, "maxFeePerGas"), "maxPriorityFeePerGas"),
                [gasPrice |-> IF Has(fd, "gasPrice") THEN fd.gasPrice ELSE 0,
                 type |-> 0])

\* The transaction getTypedTransaction returns.
getTypedTransaction(transaction, fd) ==
    IF IsFeeMarket(fd)
    THEN Spread(Delete(transaction, "gasPrice"),
                [maxFeePerGas |-> fd.maxFeePerGas,
                 maxPriorityFeePerGas |-> fd.maxPriorityFeePerGas,
                 type |-> 2])
    ELSE Spread(Delete(Delete(transaction, "maxFeePerGas"), "maxPriorityFeePerGas"),
                [gasPrice |-> IF Has(fd, "gasPrice") THEN fd.gasPrice ELSE 0,
                 type |-> 0])

\* The object getTypedTransaction was given, after the call: the delete
\* statements act on the caller's object.
getTypedTransactionArgument(transaction, fd) ==
    IF IsFeeMarket(fd)
    THEN Delete(transaction, "gasPrice")
    ELSE Delete(Delete(transaction, "maxFeePerGas"), "maxPriorityFeePerGas")

\* The payload of an ERC20 transfer(recipient, amount) call.
getTransactionData(transaction) ==
    [selector |-> "transfer", to |-> transaction.recipient, value |-> transaction.amount]

(***************************************************************************)
(* The steps of prepareCoinTransaction and prepareTokenTransaction.        *)
(***************************************************************************)
\* The slip of not honouring useAllAmount.
coinAmountIgnoresUseAll(balance, typedTransaction) == typedTransaction.amount

coinAmount(balance, typedTransaction) ==
    IF typedTransaction.useAllAmount
    THEN balance - getEstimatedFees(typedTransaction)
    ELSE typedTransaction.amount

\* The slip of returning the transaction with the substituted amount.
coinUnchangedProto(typedTransaction, protoTransaction) == protoTransaction

\* What prepareCoinTransaction returns when a check reports an error.
coinUnchanged(typedTransaction, protoTransaction) == typedTransaction

coinPrepared(protoTransaction, amount, gasLimit) ==
    Spread(protoTransaction, [amount |-> amount, gasLimit |-> gasLimit])

tokenAmount(tokenBalance, typedTransaction) ==
    IF typedTransaction.useAllAmount THEN tokenBalance ELSE typedTransaction.amount

\* The slip of estimating a bare call, without the classified fields.
tokenGasRequestBare(typedTransaction, tokenAccount, data) ==
    [recipient |-> tokenAccount.token.contractAddress, data |-> data]

tokenGasRequest(typedTransaction, tokenAccount, data) ==
    Spread(typedTransaction, [recipient |-> tokenAccount.token.contractAddress, data |-> data])

\* The slip of returning the transaction the estimate was asked for.
tokenPreparedFromRequest(typedTransaction, data, gasLimit) ==
    Spread(typedTransaction,
           [recipient |-> Contract, data |-> data, gasLimit |-> gasLimit])

tokenPrepared(typedTransaction, data, gasLimit) ==
    Spread(typedTransaction, [data |-> data, gasLimit |-> gasLimit])

(***************************************************************************)
(* The inputs of prepareTransaction.                                       *)
(***************************************************************************)
\* A FeeData snapshot: each field a price or null; the tip is at most the
\* maximal fee.
FeeDatas ==
    {fd \in Objects(FeeFields, 0..MaxFee) :
        IsFeeMarket(fd) => fd.maxPriorityFeePerGas <= fd.maxFeePerGas}

Recipients == {"", "nope", Self, Bob}

\* The fee fields a draft carries: those of a legacy transaction or those of
\* a fee-market one.
DraftFees ==
    {[type |-> 0, gasPrice |-> g] : g \in 0..MaxFee}
    \cup {fees \in {[type |-> 2, maxFeePerGas |-> m, maxPriorityFeePerGas |-> p] :
                        m \in 0..MaxFee, p \in 0..MaxFee} :
                fees.maxPriorityFeePerGas <= fees.maxFeePerGas}

Drafts ==
    {Spread(Spread([family |-> "evm", mode |-> "send", chainId |-> 1, nonce |-> 0,
                    feesStrategy |-> "medium", recipient |-> r, amount |-> a,
                    useAllAmount |-> u, gasLimit |-> g], sub), fees) :
        r \in Recipients, a \in 0..MaxAmount, u \in BOOLEAN, g \in 0..MaxGas,
        sub \in Objects({"subAccountId"}, {"tok", "child", "none"}),
        fees \in DraftFees}

(***************************************************************************)
(* The steps that decide the path, the outcome and the requests.           *)
(***************************************************************************)
\* The slip of taking any sub-account for a token account.
isTokenTransactionAnySubAccount(subAccount) == subAccount # Absent

\* subAccount?.type === "TokenAccount"
isTokenTransaction(subAccount) ==
    subAccount # Absent /\ subAccount.type = "TokenAccount"

\* transaction.subAccountId || ""
subAccountIdOf(transaction) ==
    IF Has(transaction, "subAccountId") THEN transaction.subAccountId ELSE ""

\* The slip of estimating the gas of the transaction without its final amount.
coinGasRequestTyped(typedTransaction, protoTransaction) == typedTransaction

\* The transaction prepareCoinTransaction asks the gas estimate for.
coinGasRequest(typedTransaction, protoTransaction) == protoTransaction

\* The slip of checking a token amount against the balance less the fees.
tokenTotalSpentWithFees(amount, typedTransaction) ==
    amount + getEstimatedFees(typedTransaction)

\* The total prepareTokenTransaction has the amount check compare with the
\* token balance.
tokenTotalSpent(amount, typedTransaction) == amount

\* encodeFunctionData("transfer", [recipient, amount]) throws when the
\* recipient is no address or the amount no unsigned integer.
encodeThrows(transaction) ==
    ~IsAddress(transaction.recipient) \/ transaction.amount < 0

\* The slip of encoding the payload before the checks are looked at.
tokenOutcomeEncodesFirst(recipientErrors, amountErrors, transaction) ==
    IF encodeThrows(transaction) THEN "Throws"
    ELSE IF HasErrors(amountErrors) \/ HasErrors(recipientErrors) THEN "Unchanged"
    ELSE "GasRequested"

\* What prepareTokenTransaction does once the checks are made: return the
\* transaction unchanged, or encode the payload (which may throw) and ask
\* for the gas estimate.
tokenOutcome(recipientErrors, amountErrors, transaction) ==
    IF HasErrors(amountErrors) \/ HasErrors(recipientErrors) THEN "Unchanged"
    ELSE IF encodeThrows(transaction) THEN "Throws"
    ELSE "GasRequested"

\* The errors a network request may be rejected with.
NetworkErrors == {"NetworkDown", "Timeout"}

\* The slip of wrapping the error of a rejected request.
wrappedError(e) == "PrepareError"

\* An await without a try: the rejection's error is the call's.
propagatedError(e) == e

(***************************************************************************)
(* prepareTransaction, one step per stage of the pipeline.                 *)
(***************************************************************************)
PrepOff ==
    /\ pc = "off" /\ draft0 = Absent /\ draft = Absent /\ feeData = Absent
    /\ store = Absent /\ path = "" /\ typed = Absent /\ gasReq = Absent
    /\ result = Absent /\ error = ""
    /\ estimate = Absent /\ netError = "" /\ feeReqs = 0 /\ gasReqs = 0
    /\ inFlight = {}

\* prepareTransaction(account, transaction) is called and awaits the fee data.
InitPrep ==
    /\ pc = "Draft"
    /\ draft0 \in Drafts
    /\ draft = draft0
    /\ feeData = Absent /\ store = Absent /\ path = ""
    /\ typed = Absent /\ gasReq = Absent /\ result = Absent /\ error = ""
    /\ estimate = Absent /\ netError = ""
    /\ feeReqs = 1 /\ gasReqs = 0 /\ inFlight = {"feeData"}

\* await getFeesEstimation(currency) resolves.
FeeDataFetched ==
    /\ pc = "Draft" /\ "feeData" \in inFlight
    /\ feeData' \in FeeDatas
    /\ inFlight' = inFlight \ {"feeData"}
    /\ pc' = "FeeDataFetched"
    /\ UNCHANGED <<draft0, draft, store, path, typed, gasReq, result, error,
                   estimate, netError, feeReqs, gasReqs>>
    /\ UNCHANGED <<codecVars, signVars, concVars, appVars>>

\* await getFeesEstimation(currency) rejects.
FeeDataFails ==
    /\ pc = "Draft" /\ "feeData" \in inFlight
    /\ \E e \in NetworkErrors :
        /\ netError' = e
        /\ error' = propagatedError(e)
    /\ inFlight' = inFlight \ {"feeData"}
    /\ pc' = "Failed"
    /\ UNCHANGED <<draft0, draft, feeData, store, path, typed, gasReq, result,
                   estimate, feeReqs, gasReqs>>
    /\ UNCHANGED <<codecVars, signVars, concVars, appVars>>

\* The sub-account is resolved and the transaction classified.
Classify ==
    /\ pc = "FeeDataFetched"
    /\ LET subAccount == findSubAccountById(AccountIdentity.subAccounts,
                                            subAccountIdOf(draft))
       IN  path' = IF isTokenTransaction(subAccount) THEN "token" ELSE "coin"
    /\ typed' = getTypedTransaction(draft, feeData)
    /\ draft' = getTypedTransactionArgument(draft, feeData)
    /\ pc' = "Classified"
    /\ UNCHANGED <<draft0, feeData, store, gasReq, result, error,
                   estimate, netError, feeReqs, gasReqs, inFlight>>
    /\ UNCHANGED <<codecVars, signVars, concVars, appVars>>

\* prepareCoinTransaction up to its return or its await.
PrepareCoin ==
    /\ pc = "Classified" /\ path = "coin"
    /\ \E b \in 0..MaxBalance :
        LET account == Account(b)
            estimatedFees == getEstimatedFees(typed)
            amount == coinAmount(account.balance, typed)
            totalSpent == amount + estimatedFees
            protoTransaction == Spread(typed, [amount |-> amount])
            recipientErrors == validateRecipient(account, typed)
            amountErrors == validateAmount(account, protoTransaction, totalSpent)
        IN  /\ store' = [balance |-> b]
            /\ IF HasErrors(amountErrors) \/ HasErrors(recipientErrors)
               THEN /\ result' = coinUnchanged(typed, protoTransaction)
                    /\ pc' = "Unchanged"
                    /\ UNCHANGED <<gasReq, gasReqs, inFlight>>
               ELSE /\ gasReq' = coinGasRequest(typed, protoTransaction)
                    /\ gasReqs' = gasReqs + 1
                    /\ inFlight' = inFlight \cup {"gasEstimate"}
                    /\ pc' = "GasRequested"
                    /\ UNCHANGED result
    /\ UNCHANGED <<draft0, draft, feeData, path, typed, error, estimate, netError, feeReqs>>
    /\ UNCHANGED <<codecVars, signVars, concVars, appVars>>

\* prepareTokenTransaction up to its return, its throw or its await.
PrepareToken ==
    /\ pc = "Classified" /\ path = "token"
    /\ \E t \in 0..MaxBalance :
        LET account == AccountIdentity
            tokenAccount == TokenAccount(t)
            amount == tokenAmount(tokenAccount.balance, typed)
            protoTransaction == Spread(typed, [amount |-> 0])
            recipientErrors == validateRecipient(account, protoTransaction)
            amountErrors == validateAmount(tokenAccount, protoTransaction,
                                           tokenTotalSpent(amount, typed))
            encoded == Spread(typed, [amount |-> amount])
            outcome == tokenOutcome(recipientErrors, amountErrors, encoded)
        IN  /\ store' = [tokenBalance |-> t]
            /\ CASE outcome = "Unchanged" ->
                    /\ result' = typed
                    /\ pc' = "Unchanged"
                    /\ UNCHANGED <<gasReq, gasReqs, inFlight, error>>
                 [] outcome = "Throws" ->
                    /\ error' = "EncodingError"
                    /\ pc' = "Failed"
                    /\ UNCHANGED <<gasReq, gasReqs, inFlight, result>>
                 [] OTHER ->
                    /\ gasReq' = tokenGasRequest(typed, tokenAccount,
                                                 getTransactionData(encoded))
                    /\ gasReqs' = gasReqs + 1
                    /\ inFlight' = inFlight \cup {"gasEstimate"}
                    /\ pc' = "GasRequested"
                    /\ UNCHANGED <<result, error>>
    /\ UNCHANGED <<draft0, draft, feeData, path, typed, estimate, netError, feeReqs>>
    /\ UNCHANGED <<codecVars, signVars, concVars, appVars>>

\* await getGasEstimation(account, ...) resolves.
GasEstimated ==
    /\ pc = "GasRequested" /\ "gasEstimate" \in inFlight
    /\ \E gasLimit \in 0..MaxGas :
        /\ estimate' = gasLimit
        /\ result' = IF path = "token"
                     THEN tokenPrepared(typed, gasReq.data, gasLimit)
                     ELSE coinPrepared(gasReq, gasReq.amount, gasLimit)
    /\ inFlight' = inFlight \ {"gasEstimate"}
    /\ pc' = "Prepared"
    /\ UNCHANGED <<draft0, draft, feeData, store, path, typed, gasReq, error,
                   netError, feeReqs, gasReqs>>
    /\ UNCHANGED <<codecVars, signVars, concVars, appVars>>

\* await getGasEstimation(account, ...) rejects.
GasEstimationFails ==
    /\ pc = "GasRequested" /\ "gasEstimate" \in inFlight
    /\ \E e \in NetworkErrors :
        /\ netError' = e
        /\ error' = propagatedError(e)
    /\ inFlight' = inFlight \ {"gasEstimate"}
    /\ pc' = "Failed"
    /\ UNCHANGED <<draft0, draft, feeData, store, path, typed, gasReq, result,
                   estimate, feeReqs, gasReqs>>
    /\ UNCHANGED <<codecVars, signVars, concVars, appVars>>

(***************************************************************************)
(* The operations made right before signing: prepareForSignOperation and   *)
(* transactionToUnsignedTransaction.                                       *)
(***************************************************************************)
\* The slip of redirecting the transfer of any sub-account.
prepareForSignOperationAnySubAccount(account, transaction) ==
    LET subAccount == findSubAccountById(account.subAccounts,
                                         subAccountIdOf(transaction))
    IN  IF subAccount # Absent
        THEN Spread(transaction, [recipient |-> Contract])
        ELSE transaction

prepareForSignOperation(account, transaction) ==
    LET subAccount == findSubAccountById(account.subAccounts,
                                         subAccountIdOf(transaction))
    IN  IF isTokenTransaction(subAccount)
        THEN Spread(transaction, [recipient |-> subAccount.token.contractAddress])
        ELSE transaction

\* The slip of returning the transaction without the fetched count.
transactionToUnsignedTransactionKeepsNonce(tx, nonce) == tx

\* What transactionToUnsignedTransaction returns once the count is fetched.
transactionToUnsignedTransaction(tx, nonce) == Spread(tx, [nonce |-> nonce])

\* One of the two operations is called on a transaction.
InitSign ==
    /\ sPc \in {"prepareForSignOperation", "getTransactionCount"}
    /\ sTx \in Drafts
    /\ sReq = IF sPc = "getTransactionCount"
              THEN AccountIdentity.freshAddress ELSE Absent
    /\ sOut = Absent /\ sNonce = Absent /\ sError = ""

PrepareForSign ==
    /\ sPc = "prepareForSignOperation"
    /\ sOut' = prepareForSignOperation(AccountIdentity, sTx)
    /\ sPc' = "prepared"
    /\ UNCHANGED <<sTx, sReq, sNonce, sError>>
    /\ UNCHANGED <<codecVars, prepVars, concVars, appVars>>

\* await getTransactionCount(currency, freshAddress) resolves.
TransactionCountFetched ==
    /\ sPc = "getTransactionCount"
    /\ \E nonce \in 0..MaxNonce :
        /\ sNonce' = nonce
        /\ sOut' = transactionToUnsignedTransaction(sTx, nonce)
    /\ sPc' = "unsigned"
    /\ UNCHANGED <<sTx, sReq, sError>>
    /\ UNCHANGED <<codecVars, prepVars, concVars, appVars>>

\* await getTransactionCount(currency, freshAddress) rejects.
TransactionCountFails ==
    /\ sPc = "getTransactionCount"
    /\ \E e \in NetworkErrors : sError' = e
    /\ sPc' = "failed"
    /\ UNCHANGED <<sTx, sOut, sReq, sNonce>>
    /\ UNCHANGED <<codecVars, prepVars, concVars, appVars>>

(***************************************************************************)
(* Two prepareTransaction invocations on two draft objects.  JavaScript    *)
(* runs an invocation to completion between two awaits, so that a step of  *)
(* an invocation is all its code from the resolution of one network        *)
(* request to the next request, the return or the throw.                   *)
(***************************************************************************)
Calls == {1, 2}

\* The slip of keeping typedTransaction in a variable of the module, which
\* all invocations share.
typedSlotOfModule(p) == 1

\* typedTransaction is a local constant: each invocation has its own.
typedSlot(p) == p

ConcDrafts ==
    {d \in Drafts :
        /\ d.recipient = Bob /\ d.amount = MaxAmount /\ d.gasLimit = MaxGas
        /\ Has(d, "subAccountId") => d.subAccountId = "tok"
        /\ \A f \in FeeFields \cap DOMAIN d : d[f] = MaxFee}

ConcFeeDatas ==
    {fd \in FeeDatas :
        /\ DOMAIN fd \in {{"gasPrice"}, FeeFields}
        /\ \A f \in DOMAIN fd : fd[f] = MaxFee}

\* prepareTransaction(account, transaction) is called and awaits the fee data.
CallStarted(transaction) ==
    [pc |-> "Draft", draft0 |-> transaction, draft |-> transaction,
     feeData |-> Absent, store |-> Absent, path |-> "", gasReq |-> Absent,
     result |-> Absent, error |-> "", estimate |-> Absent]

InitConc ==
    /\ calls \in [Calls -> {CallStarted(d) : d \in ConcDrafts}]
    /\ typedTransactions = [slot \in Calls |-> Absent]

\* prepareCoinTransaction up to its return or its await, with balance b.
CoinCall(c, typedTransaction, b) ==
    LET account == Account(b)
        estimatedFees == getEstimatedFees(typedTransaction)
        amount == coinAmount(account.balance, typedTransaction)
        totalSpent == amount + estimatedFees
        protoTransaction == Spread(typedTransaction, [amount |-> amount])
        recipientErrors == validateRecipient(account, typedTransaction)
        amountErrors == validateAmount(account, protoTransaction, totalSpent)
    IN  IF HasErrors(amountErrors) \/ HasErrors(recipientErrors)
        THEN Spread(c, [pc |-> "Unchanged", store |-> [balance |-> b],
                        result |-> coinUnchanged(typedTransaction, protoTransaction)])
        ELSE Spread(c, [pc |-> "GasRequested", store |-> [balance |-> b],
                        gasReq |-> coinGasRequest(typedTransaction, protoTransaction)])

\* prepareTokenTransaction up to its return, its throw or its await, with
\* token balance t.
TokenCall(c, typedTransaction, t) ==
    LET tokenAccount == TokenAccount(t)
        amount == tokenAmount(tokenAccount.balance, typedTransaction)
        protoTransaction == Spread(typedTransaction, [amount |-> 0])
        recipientErrors == validateRecipient(AccountIdentity, protoTransaction)
        amountErrors == validateAmount(tokenAccount, protoTransaction,
                                       tokenTotalSpent(amount, typedTransaction))
        encoded == Spread(typedTransaction, [amount |-> amount])
        outcome == tokenOutcome(recipientErrors, amountErrors, encoded)
    IN  CASE outcome = "Unchanged" ->
                Spread(c, [pc |-> "Unchanged", store |-> [tokenBalance |-> t],
                           result |-> typedTransaction])
          [] outcome = "Throws" ->
                Spread(c, [pc |-> "Failed", store |-> [tokenBalance |-> t],
                           error |-> "EncodingError"])
          [] OTHER ->
                Spread(c, [pc |-> "GasRequested", store |-> [tokenBalance |-> t],
                           gasReq |-> tokenGasRequest(typedTransaction, tokenAccount,
                                                      getTransactionData(encoded))])

\* await getFeesEstimation resolves for invocation p: the transaction is
\* classified and prepareCoinTransaction or prepareTokenTransaction runs up
\* to its return or its await.
CallFeeDataFetched(p) ==
    /\ calls[p].pc = "Draft"
    /\ \E fd \in ConcFeeDatas, b \in 0..MaxBalance :
        LET c == calls[p]
            subAccount == findSubAccountById(AccountIdentity.subAccounts,
                                             subAccountIdOf(c.draft))
            typedTransaction == getTypedTransaction(c.draft, fd)
            classified ==
                Spread(c, [feeData |-> fd,
                           draft |-> getTypedTransactionArgument(c.draft, fd),
                           path |-> IF isTokenTransaction(subAccount)
                                    THEN "token" ELSE "coin"])
        IN  /\ typedTransactions' =
                  [typedTransactions EXCEPT ![typedSlot(p)] = typedTransaction]
            /\ calls' = [calls EXCEPT ![p] =
                  IF isTokenTransaction(subAccount)
                  THEN TokenCall(classified, typedTransaction, b)
                  ELSE CoinCall(classified, typedTransaction, b)]
    /\ UNCHANGED <<codecVars, prepVars, signVars, appVars>>

\* await getFeesEstimation rejects for invocation p.
CallFeeDataFails(p) ==
    /\ calls[p].pc = "Draft"
    /\ \E e \in NetworkErrors :
        calls' = [calls EXCEPT ![p] =
                     Spread(@, [pc |-> "Failed", error |-> propagatedError(e)])]
    /\ UNCHANGED typedTransactions
    /\ UNCHANGED <<codecVars, prepVars, signVars, appVars>>

\* await getGasEstimation resolves for invocation p, which returns.
CallGasEstimated(p) ==
    /\ calls[p].pc = "GasRequested"
    /\ \E gasLimit \in 0..MaxGas :
        LET c == calls[p]
        IN  calls' = [calls EXCEPT ![p] =
                Spread(c, [pc |-> "Prepared", estimate |-> gasLimit,
                           result |->
                               IF c.path = "token"
                               THEN tokenPrepared(typedTransactions[typedSlot(p)],
                                                  c.gasReq.data, gasLimit)
                               ELSE coinPrepared(c.gasReq, c.gasReq.amount, gasLimit)])]
    /\ UNCHANGED typedTransactions
    /\ UNCHANGED <<codecVars, prepVars, signVars, appVars>>

\* await getGasEstimation rejects for invocation p.
CallGasEstimationFails(p) ==
    /\ calls[p].pc = "GasRequested"
    /\ \E e \in NetworkErrors :
        calls' = [calls EXCEPT ![p] =
                     Spread(@, [pc |-> "Failed", error |-> propagatedError(e)])]
    /\ UNCHANGED typedTransactions
    /\ UNCHANGED <<codecVars, prepVars, signVars, appVars>>

(***************************************************************************)
(* The devices reducer of the desktop application.                         *)
(***************************************************************************)
DeviceIds == {"usb1", "usb2", "ble1"}

\* A device: its deviceId is a string.
Devices == [deviceId : DeviceIds, modelId : {"nanoS", "nanoX"}]

\* currentDevice: null is Absent.
initialState == [currentDevice |-> Absent, devices |-> << >>]

setCurrentDevice(state) ==
    [state EXCEPT !.currentDevice =
        IF Len(state.devices) # 0 THEN state.devices[Len(state.devices)] ELSE Absent]

\* deviceId?.id: a string has no property id, the value is undefined.
optionalId(deviceId) == "undefined"

\* state.devices.some(d => d.deviceId === device.deviceId ||
\*                         d.deviceId?.id === device.deviceId?.id)
duplicateOf(devices, device) ==
    \E i \in 1..Len(devices) :
        \/ devices[i].deviceId = device.deviceId
        \/ optionalId(devices[i].deviceId) = optionalId(device.deviceId)

RESET_DEVICES == initialState

ADD_DEVICE(state, device) ==
    LET duplicate == duplicateOf(state.devices, device)
    IN  IF duplicate /\ state.currentDevice # Absent THEN state
        ELSE setCurrentDevice(
                [state EXCEPT !.devices =
                    IF duplicate THEN state.devices ELSE Append(state.devices, device)])

\* The slip of leaving currentDevice as it is when its device is removed.
REMOVE_DEVICE_KeepsCurrent(state, device) ==
    [currentDevice |-> state.currentDevice,
     devices |-> SelectSeq(state.devices, LAMBDA d : d.deviceId # device.deviceId)]

REMOVE_DEVICE(state, device) ==
    [currentDevice |->
        IF state.currentDevice # Absent /\ state.currentDevice.deviceId = device.deviceId
        THEN Absent ELSE state.currentDevice,
     devices |-> SelectSeq(state.devices, LAMBDA d : d.deviceId # device.deviceId)]

SET_CURRENT_DEVICE(state, currentDevice) ==
    [state EXCEPT !.currentDevice = currentDevice]

\* handleActions(handlers, initialState): the store starts at initialState.
InitDevices ==
    /\ dState = initialState
    /\ dPrev = initialState
    /\ dAction = [type |-> "@@INIT"]
    /\ dListOnly = TRUE

ResetDevices ==
    /\ dPrev' = dState
    /\ dAction' = [type |-> "RESET_DEVICES"]
    /\ dState' = RESET_DEVICES
    /\ UNCHANGED dListOnly
    /\ UNCHANGED exceptDevVars

AddDevice ==
    /\ \E device \in Devices :
        /\ dAction' = [type |-> "ADD_DEVICE", payload |-> device]
        /\ dState' = ADD_DEVICE(dState, device)
    /\ dPrev' = dState
    /\ UNCHANGED dListOnly
    /\ UNCHANGED exceptDevVars

RemoveDevice ==
    /\ \E device \in Devices :
        /\ dAction' = [type |-> "REMOVE_DEVICE", payload |-> device]
        /\ dState' = REMOVE_DEVICE(dState, device)
    /\ dPrev' = dState
    /\ UNCHANGED dListOnly
    /\ UNCHANGED exceptDevVars

SetCurrentDevice ==
    /\ \E device \in Devices :
        /\ dAction' = [type |-> "SET_CURRENT_DEVICE", payload |-> device]
        /\ dState' = SET_CURRENT_DEVICE(dState, device)
    /\ dPrev' = dState
    /\ dListOnly' = FALSE
    /\ UNCHANGED exceptDevVars

(***************************************************************************)
(* RemoteLiveAppProvider: the Loadable state and updateManifests.          *)
(***************************************************************************)
\* The manifest lists api.fetchLiveAppManifests may answer.
ManifestLists ==
    {<<[id |-> "app1", version |-> 1]>>,
     <<[id |-> "app1", version |-> 2], [id |-> "app2", version |-> 1]>>}

\* initialState: value null is Absent, error null is "".
initialLoadable == [isLoading |-> FALSE, value |-> Absent, error |-> ""]

\* allManifests.reduce((acc, m) => { acc[m.id] = m; return acc; }, {})
liveAppById(allManifests) ==
    [id \in {allManifests[i].id : i \in 1..Len(allManifests)} |->
        LET last == CHOOSE i \in 1..Len(allManifests) :
                        /\ allManifests[i].id = id
                        /\ \A j \in 1..Len(allManifests) :
                              allManifests[j].id = id => j <= i
        IN  allManifests[last]]

\* The state set at the start of updateManifests.
loadingState(currentState) ==
    [currentState EXCEPT !.isLoading = TRUE, !.error = ""]

\* The state set when the fetch resolves.
loadedState(allManifests) ==
    [isLoading |-> FALSE,
     value |-> [liveAppByIndex |-> allManifests,
                liveAppById |-> liveAppById(allManifests)],
     error |-> ""]

\* The state set when the fetch rejects.
failedState(currentState, e) ==
    [currentState EXCEPT !.isLoading = FALSE, !.error = e]

\* useState(initialState): the provider is rendered, no call made yet.
InitManifests ==
    /\ mState = initialLoadable
    /\ mFetches = << >>

\* updateManifests is called (by the effect at mount, by the interval or by
\* a consumer of the context) and runs up to its await.
UpdateManifests ==
    /\ Len(mFetches) < MaxFetches
    /\ mState' = loadingState(mState)
    /\ mFetches' = Append(mFetches, [status |-> "pending"])
    /\ UNCHANGED exceptManVars

\* await api.fetchLiveAppManifests resolves for the call k.
ManifestsFetched ==
    /\ \E k \in 1..Len(mFetches), allManifests \in ManifestLists :
        /\ mFetches[k].status = "pending"
        /\ mState' = loadedState(allManifests)
        /\ mFetches' = [mFetches EXCEPT
                           ![k] = [status |-> "resolved", manifests |-> allManifests]]
    /\ UNCHANGED exceptManVars

\* await api.fetchLiveAppManifests rejects for the call k.
ManifestsFetchFails ==
    /\ \E k \in 1..Len(mFetches), e \in NetworkErrors :
        /\ mFetches[k].status = "pending"
        /\ mState' = failedState(mState, e)
        /\ mFetches' = [mFetches EXCEPT ![k] = [status |-> "rejected", error |-> e]]
    /\ UNCHANGED exceptManVars

(***************************************************************************)
(* useWalletAPIServer: the handlers of account.request,                    *)
(* transaction.signAndBroadcast, device.transport and device.close.  A     *)
(* handler runs to completion between two awaits or callbacks.             *)
(***************************************************************************)
KnownCurrencies == {"bitcoin", "ethereum"}

\* The currency ids a request may name.
RequestedCurrencies ==
    {<< >>, <<"bitcoin">>, <<"unknown">>, <<"bitcoin", "ethereum">>,
     <<"bitcoin", "unknown">>}

findCryptoCurrencyById(id) ==
    IF id \in KnownCurrencies THEN [id |-> id] ELSE Absent

listSupportedCurrencies == <<[id |-> "bitcoin"], [id |-> "ethereum"]>>

Includes(seq, v) == \E i \in 1..Len(seq) : seq[i] = v

\* currencyList as the account.request handler computes it.
currencyListOf(cryptoCurrencyIds) ==
    IF Len(cryptoCurrencyIds) = 1
    THEN LET currency == findCryptoCurrencyById(cryptoCurrencyIds[1])
         IN  IF currency # Absent THEN <<currency>> ELSE << >>
    ELSE SelectSeq(listSupportedCurrencies,
                   LAMBDA c : Includes(cryptoCurrencyIds, c.id))

\* A promise is settled once: a later resolve or reject is without effect.
Resolved(v) == [status |-> "resolved", value |-> v]

Rejected(e) == [status |-> "rejected", error |-> e]

settle(resp, outcome) == IF resp = Absent THEN outcome ELSE resp

UiErrors == {"UserRefused", "DeviceLocked"}

\* What signTransactionLogic and broadcastTransactionLogic do before they
\* call the function they are handed: reject, or go on and settle as it does.
LogicOutcomes == {"AccountNotFound", "calls"}

\* The slip of a catch block that does not throw the error again.
broadcastCatchSwallows(e) == "continues"

\* catch (error) { tracking.broadcastFail(manifest); throw error; }
broadcastCatch(e) == "throws"

Operations == {[hash |-> "h1"], [hash |-> "h2"], [hash |-> "h3"]}

\* The account and the transaction a signAndBroadcast request carries, and
\* the value of DISABLE_TRANSACTION_BROADCAST it runs under.
WalletAccounts == {[id |-> "acc1"], [id |-> "acc2"]}

WalletTransactions == {[family |-> "ethereum"], [family |-> "bitcoin"]}

Invoked(hook) == \E i \in 1..Len(wUiCalls) : wUiCalls[i].hook = hook

\* The hooks are set, the page has made no request yet.
InitWallet ==
    /\ wStage = "idle" /\ wReq = Absent /\ wUiCalls = << >> /\ wResp = Absent
    /\ wSign = "" /\ wBroadcast = "" /\ wFailure = ""
    /\ tRef = "undefined" /\ tSeen = "undefined"

\* The handler of account.request, up to the call of the UI hook.
AccountRequest ==
    /\ wStage \in {"idle", "done"}
    /\ \E cryptoCurrencyIds \in RequestedCurrencies :
        /\ wReq' = [kind |-> "account.request", currencies |-> cryptoCurrencyIds]
        /\ wResp' = IF /\ Len(cryptoCurrencyIds) = 1
                       /\ Len(currencyListOf(cryptoCurrencyIds)) = 0
                    THEN Rejected([code |-> "CurrencyNotFound",
                                   id |-> cryptoCurrencyIds[1]])
                    ELSE Absent
        /\ wUiCalls' = <<[hook |-> "account.request",
                          currencies |-> currencyListOf(cryptoCurrencyIds)]>>
    /\ wStage' = "ui"
    /\ wSign' = "" /\ wBroadcast' = "" /\ wFailure' = ""
    /\ UNCHANGED <<tRef, tSeen>>
    /\ UNCHANGED exceptWalletVars

\* The handler of transaction.signAndBroadcast, up to the call of uiTxSign
\* or the rejection of signTransactionLogic.
SignAndBroadcast ==
    /\ wStage \in {"idle", "done"}
    /\ \E account \in WalletAccounts, transaction \in WalletTransactions,
          disabled \in BOOLEAN, logic \in LogicOutcomes :
        /\ wReq' = [kind |-> "transaction.signAndBroadcast",
                    account |-> account, transaction |-> transaction,
                    disableBroadcast |-> disabled]
        /\ IF logic = "calls"
           THEN /\ wUiCalls' = <<[hook |-> "transaction.sign"]>>
                /\ wResp' = Absent /\ wStage' = "ui"
                /\ wSign' = "" /\ wFailure' = ""
           ELSE /\ wUiCalls' = << >>
                /\ wResp' = Rejected(logic) /\ wStage' = "done"
                /\ wSign' = "failed" /\ wFailure' = logic
    /\ wBroadcast' = ""
    /\ UNCHANGED <<tRef, tSeen>>
    /\ UNCHANGED exceptWalletVars

\* The handler of device.transport, up to the call of the UI hook.
DeviceTransport ==
    /\ wStage \in {"idle", "done"}
    /\ \E devices \in {<<"nanoX">>, <<"nanoS", "nanoX">>} :
        wReq' = [kind |-> "device.transport", devices |-> devices,
                 transportOpen |-> tRef = "open"]
    /\ IF tSeen = "undefined"
       THEN /\ wResp' = Rejected("Device already opened")
            /\ wUiCalls' = << >> /\ wStage' = "done"
       ELSE /\ wResp' = Absent
            /\ wUiCalls' = <<[hook |-> "device.transport"]>> /\ wStage' = "ui"
    /\ wSign' = "" /\ wBroadcast' = "" /\ wFailure' = ""
    /\ UNCHANGED <<tRef, tSeen>>
    /\ UNCHANGED exceptWalletVars

\* The handler of device.close.
DeviceClose ==
    /\ wStage \in {"idle", "done"}
    /\ wReq' = [kind |-> "device.close", transportOpen |-> tRef = "open"]
    /\ IF tSeen = "undefined"
       THEN /\ wResp' = Rejected("No device opened") /\ UNCHANGED tRef
       ELSE /\ wResp' = Resolved("transportId") /\ tRef' = "undefined"
    /\ wUiCalls' = << >> /\ wStage' = "done"
    /\ wSign' = "" /\ wBroadcast' = "" /\ wFailure' = ""
    /\ UNCHANGED tSeen
    /\ UNCHANGED exceptWalletVars

\* The component renders again: device.subject$ is ref.current of that time.
Render ==
    /\ wStage # "off"
    /\ tSeen' = tRef
    /\ UNCHANGED <<wStage, wReq, wUiCalls, wResp, wSign, wBroadcast, wFailure, tRef>>
    /\ UNCHANGED exceptWalletVars

\* The state of the server as one record, and its assignment.
Wallet ==
    [stage |-> wStage, req |-> wReq, uiCalls |-> wUiCalls, resp |-> wResp,
     sign |-> wSign, broadcast |-> wBroadcast, failure |-> wFailure, ref |-> tRef]

SetWallet(w) ==
    /\ wStage' = w.stage /\ wReq' = w.req /\ wUiCalls' = w.uiCalls
    /\ wResp' = w.resp /\ wSign' = w.sign /\ wBroadcast' = w.broadcast
    /\ wFailure' = w.failure /\ tRef' = w.ref

\* The callbacks a UI hook may call back.
Callbacks(hook) ==
    CASE hook = "account.request" ->
            {[cb |-> "onSuccess", account |-> a] : a \in WalletAccounts}
            \cup {[cb |-> "onError"]}
      [] hook = "transaction.sign" ->
            {[cb |-> "onSuccess", operation |-> o, logic |-> l] :
                o \in Operations, l \in LogicOutcomes}
            \cup {[cb |-> "onError", error |-> e] : e \in UiErrors}
      [] OTHER ->
            {[cb |-> "onSuccess", device |-> d, versionInRange |-> v] :
                d \in {Absent, [modelId |-> "nanoS"], [modelId |-> "nanoX"]},
                v \in BOOLEAN}
            \cup {[cb |-> "onCancel"]}
            \cup {[cb |-> "onError", error |-> e] : e \in UiErrors}

\* onAccountRequestSuccess / onAccountRequestError
afterAccountRequest(w, c) ==
    IF c.cb = "onSuccess"
    THEN [w EXCEPT !.resp = settle(w.resp, Resolved(c.account)), !.stage = "done"]
    ELSE [w EXCEPT !.resp = settle(w.resp, Rejected("Canceled by user")),
                   !.stage = "done"]

\* uiTxBroadcast(account, parentAccount, mainAccount, optimisticOperation);
\* return optimisticOperation.hash
broadcastDone(w, optimisticOperation) ==
    [w EXCEPT !.uiCalls = Append(w.uiCalls, [hook |-> "transaction.broadcast",
                                             operation |-> optimisticOperation]),
              !.resp = Resolved(optimisticOperation.hash),
              !.stage = "done"]

\* uiTxSign calls back: on error the handler throws; on success
\* broadcastTransactionLogic runs, up to the await of bridge.broadcast or,
\* with the broadcast disabled, to the return.
afterTxSign(w, c) ==
    IF c.cb = "onError"
    THEN [w EXCEPT !.sign = "failed", !.failure = c.error,
                   !.resp = Rejected(c.error), !.stage = "done"]
    ELSE IF c.logic # "calls"
    THEN [w EXCEPT !.sign = "succeeded", !.broadcast = "failed",
                   !.failure = c.logic, !.resp = Rejected(c.logic),
                   !.stage = "done"]
    ELSE IF w.req.disableBroadcast
    THEN broadcastDone([w EXCEPT !.sign = "succeeded"], c.operation)
    ELSE [w EXCEPT !.sign = "succeeded", !.stage = "broadcasting",
                   !.req = Spread(w.req, [signedOperation |-> c.operation])]

\* The callbacks of uiDeviceTransport.
afterDeviceTransport(w, c) ==
    CASE c.cb = "onCancel" ->
            [w EXCEPT !.resp = Rejected("User cancelled"), !.stage = "done"]
      [] c.cb = "onError" ->
            [w EXCEPT !.resp = Rejected(c.error), !.stage = "done"]
      [] OTHER ->
            IF c.device = Absent
            THEN [w EXCEPT !.resp = Rejected("No device"), !.stage = "done"]
            ELSE IF ~Includes(w.req.devices, c.device.modelId)
            THEN [w EXCEPT !.resp = Rejected("Device not in the devices list"),
                           !.stage = "done"]
            ELSE IF c.versionInRange
            THEN [w EXCEPT !.resp = Rejected("App version doesn't satisfies the range"),
                           !.stage = "done"]
            ELSE [w EXCEPT !.ref = "open", !.resp = Resolved("1"), !.stage = "done"]

\* The UI hook invoked last calls one of its callbacks.
UiCallback ==
    /\ wStage = "ui"
    /\ LET hook == wUiCalls[Len(wUiCalls)].hook
       IN  \E c \in Callbacks(hook) :
              SetWallet(CASE hook = "account.request" -> afterAccountRequest(Wallet, c)
                          [] hook = "transaction.sign" -> afterTxSign(Wallet, c)
                          [] OTHER -> afterDeviceTransport(Wallet, c))
    /\ UNCHANGED tSeen
    /\ UNCHANGED exceptWalletVars

\* await bridge.broadcast(...) resolves with the optimistic operation.
BroadcastSucceeds ==
    /\ wStage = "broadcasting"
    /\ \E operation \in Operations :
        SetWallet(broadcastDone([Wallet EXCEPT !.broadcast = "succeeded"], operation))
    /\ UNCHANGED tSeen
    /\ UNCHANGED exceptWalletVars

\* await bridge.broadcast(...) rejects.
BroadcastFails ==
    /\ wStage = "broadcasting"
    /\ \E e \in NetworkErrors :
        LET failed == [Wallet EXCEPT !.broadcast = "failed", !.failure = e]
        IN  SetWallet(IF broadcastCatch(e) = "throws"
                      THEN [failed EXCEPT !.resp = Rejected(e), !.stage = "done"]
                      ELSE broadcastDone(failed, wReq.signedOperation))
    /\ UNCHANGED tSeen
    /\ UNCHANGED exceptWalletVars

(***************************************************************************)
(* updateGateCheckRun of the GitHub bot.                                   *)
(***************************************************************************)
GATE_CHECK_RUN_NAME == "gate"

\* The checkRunName of each known workflow.
WORKFLOWS == {"build", "test"}

conclusions ==
    <<"success", "pending", "waiting", "neutral", "stale", "skipped",
      "timed_out", "action_required", "cancelled", "startup_failure", "failure">>

\* conclusions.indexOf(c): -1 when c is no element.
indexOf(seq, c) ==
    IF \E i \in 1..Len(seq) : seq[i] = c
    THEN (CHOOSE i \in 1..Len(seq) :
              seq[i] = c /\ \A j \in 1..(i - 1) : seq[j] # c) - 1
    ELSE 0 - 1

\* check_run.conclusion || "neutral": a run not completed has conclusion null.
orNeutral(conclusion) == IF conclusion = "null" THEN "neutral" ELSE conclusion

\* The check runs GitHub may list: a completed run has a conclusion, a run
\* in progress has none; the id of a run is its place in the list.
RunStates ==
    {[status |-> "in_progress", conclusion |-> "null"],
     [status |-> "completed", conclusion |-> "success"],
     [status |-> "completed", conclusion |-> "skipped"],
     [status |-> "completed", conclusion |-> "failure"]}

RunNames == {GATE_CHECK_RUN_NAME, "build", "test", "codecheck"}

CheckRuns == {Spread(st, [name |-> n]) : st \in RunStates, n \in RunNames}

RunLists == UNION {[1..n -> CheckRuns] : n \in 0..MaxRuns}

\* The slip of aggregating every run but the gate, known workflow or not.
aggregateAnyRun(acc, check_run, id) ==
    IF check_run.name = GATE_CHECK_RUN_NAME
    THEN [acc EXCEPT !.gateId = id]
    ELSE LET priority == indexOf(conclusions, orNeutral(check_run.conclusion))
             accumulatorPriority == indexOf(conclusions, acc.conclusion)
         IN  [acc EXCEPT
                !.conclusion = IF priority > accumulatorPriority
                               THEN orNeutral(check_run.conclusion)
                               ELSE acc.conclusion,
                !.status = IF check_run.status = "completed" /\ acc.status = "completed"
                           THEN "completed" ELSE "in_progress"]

\* The reducer of rawCheckRuns.data.check_runs (gateId, assigned from
\* within it, is carried in the accumulator; 0 stands for null).
aggregate(acc, check_run, id) ==
    IF check_run.name = GATE_CHECK_RUN_NAME
    THEN [acc EXCEPT !.gateId = id]
    ELSE IF \A w \in WORKFLOWS : w # check_run.name
    THEN acc
    ELSE LET priority == indexOf(conclusions, orNeutral(check_run.conclusion))
             accumulatorPriority == indexOf(conclusions, acc.conclusion)
         IN  [acc EXCEPT
                !.conclusion = IF priority > accumulatorPriority
                               THEN orNeutral(check_run.conclusion)
                               ELSE acc.conclusion,
                !.status = IF check_run.status = "completed" /\ acc.status = "completed"
                           THEN "completed" ELSE "in_progress"]

RECURSIVE reduceFrom(_, _, _)
reduceFrom(check_runs, i, acc) ==
    IF i > Len(check_runs) THEN acc
    ELSE reduceFrom(check_runs, i + 1, aggregate(acc, check_runs[i], i))

reduce(check_runs) ==
    reduceFrom(check_runs, 1, [conclusion |-> "success", status |-> "completed",
                               gateId |-> 0])

\* The arguments of octokit.checks.update (but for the output texts).
gateUpdate(aggregated) ==
    IF aggregated.status = "completed"
    THEN [check_run_id |-> aggregated.gateId, status |-> "completed",
          conclusion |-> aggregated.conclusion]
    ELSE [check_run_id |-> aggregated.gateId, status |-> aggregated.status]

\* updateGateCheckRun is called and awaits the list of check suites.
InitGate == gPc = "listSuites" /\ gRuns = Absent /\ gUpdate = Absent

\* await listSuitesForRef resolves: with a suite of the bot the check runs
\* are asked for, with none the function returns.
SuitesListed ==
    /\ gPc = "listSuites"
    /\ \E checkSuite \in BOOLEAN : gPc' = IF checkSuite THEN "listRuns" ELSE "done"
    /\ UNCHANGED <<gRuns, gUpdate>>
    /\ UNCHANGED exceptGateVars

\* await listForSuite resolves: the runs are aggregated and, with a gate
\* check run among them, the update is sent.
RunsListed ==
    /\ gPc = "listRuns"
    /\ \E check_runs \in RunLists :
        LET aggregated == reduce(check_runs)
        IN  /\ gRuns' = check_runs
            /\ IF aggregated.gateId # 0
               THEN gUpdate' = gateUpdate(aggregated) /\ gPc' = "update"
               ELSE gUpdate' = Absent /\ gPc' = "done"
    /\ UNCHANGED exceptGateVars

\* await octokit.checks.update resolves.
GateUpdated ==
    /\ gPc = "update"
    /\ gPc' = "done"
    /\ UNCHANGED <<gRuns, gUpdate>>
    /\ UNCHANGED exceptGateVars

\* One of the three requests rejects: updateGateCheckRun fails.
GateRequestFails ==
    /\ gPc \in {"listSuites", "listRuns", "update"}
    /\ gPc' = "failed"
    /\ UNCHANGED <<gRuns, gUpdate>>
    /\ UNCHANGED exceptGateVars

(***************************************************************************)
(* The specifications.                                                     *)
(***************************************************************************)
Init == InitPrep /\ CodecOff /\ SignOff /\ ConcOff /\ AppOff

Next ==
    \/ FeeDataFetched
    \/ FeeDataFails
    \/ Classify
    \/ PrepareCoin
    \/ PrepareToken
    \/ GasEstimated
    \/ GasEstimationFails

Spec == Init /\ [][Next]_vars

InitCodecSpec == InitCodec /\ PrepOff /\ SignOff /\ ConcOff /\ AppOff

NextCodec ==
    \/ ToRaw
    \/ FromRaw

SpecCodec == InitCodecSpec /\ [][NextCodec]_vars

InitSignSpec == InitSign /\ CodecOff /\ PrepOff /\ ConcOff /\ AppOff

NextSign ==
    \/ PrepareForSign
    \/ TransactionCountFetched
    \/ TransactionCountFails

SpecSign == InitSignSpec /\ [][NextSign]_vars

InitConcSpec == InitConc /\ CodecOff /\ PrepOff /\ SignOff /\ AppOff

NextConc ==
    \/ \E p \in Calls : CallFeeDataFetched(p)
    \/ \E p \in Calls : CallFeeDataFails(p)
    \/ \E p \in Calls : CallGasEstimated(p)
    \/ \E p \in Calls : CallGasEstimationFails(p)

SpecConc == InitConcSpec /\ [][NextConc]_vars

InitDevicesSpec ==
    InitDevices /\ CodecOff /\ PrepOff /\ SignOff /\ ConcOff /\ ManifestsOff
    /\ WalletOff /\ GateOff

NextDevices ==
    \/ ResetDevices
    \/ AddDevice
    \/ RemoveDevice
    \/ SetCurrentDevice

SpecDevices == InitDevicesSpec /\ [][NextDevices]_vars

InitManifestsSpec ==
    InitManifests /\ CodecOff /\ PrepOff /\ SignOff /\ ConcOff /\ DevicesOff
    /\ WalletOff /\ GateOff

NextManifests ==
    \/ UpdateManifests
    \/ ManifestsFetched
    \/ ManifestsFetchFails

SpecManifests == InitManifestsSpec /\ [][NextManifests]_vars

InitWalletSpec ==
    /\ InitWallet /\ CodecOff /\ PrepOff /\ SignOff /\ ConcOff
    /\ DevicesOff /\ ManifestsOff /\ GateOff

NextWallet ==
    \/ AccountRequest
    \/ SignAndBroadcast
    \/ DeviceTransport
    \/ DeviceClose
    \/ Render
    \/ UiCallback
    \/ BroadcastSucceeds
    \/ BroadcastFails

SpecWallet == InitWalletSpec /\ [][NextWallet]_vars

InitGateSpec ==
    /\ InitGate /\ CodecOff /\ PrepOff /\ SignOff /\ ConcOff
    /\ DevicesOff /\ ManifestsOff /\ WalletOff

NextGate ==
    \/ SuitesListed
    \/ RunsListed
    \/ GateUpdated
    \/ GateRequestFails

SpecGate == InitGateSpec /\ [][NextGate]_vars

(***************************************************************************)
(* Properties of the codec, checked under SpecCodec.                       *)
(***************************************************************************)
\* A numeric field of the raw form that is not a valid decimal string.
Malformed(raw) ==
    \/ ~IsDecimal(raw.gasLimit)
    \/ ~IsDecimal(raw.amount)
    \/ \E f \in FeeFields : Has(raw, f) /\ ~IsDecimal(raw[f])
    \/ Has(raw, "type") /\ Has(raw.type, "str") /\ ~IsDecimal(raw.type.str)

\* C1: for every valid transaction tx, fromTransactionRaw(toTransactionRaw(tx))
\* is field-wise equal to tx: every field of tx is there with the same value
\* and every absent field stays absent.
C1_RoundTrip == (cPc = "parsed" /\ cTx # Absent) => cOut = cTx

\* C8: fromTransactionRaw of a raw transaction without a type field (its
\* other fields well formed) returns a transaction of type 0.
C8_AbsentTypeIsLegacy ==
    (cPc = "parsed" /\ ~Has(cRaw, "type") /\ ~Malformed(cRaw)) => cOut.type = 0

\* C9: the raw form toTransactionRaw produces holds a fee field if and only
\* if the transaction holds it, and then holds its value, zero included.
C9_FeeFieldsCarriedIffPresent ==
    (cTx # Absent /\ cPc # "tx") =>
        \A f \in FeeFields :
            /\ Has(cRaw, f) <=> Has(cTx, f)
            /\ Has(cTx, f) => (Has(cRaw, f) /\ BigNumber(cRaw[f]) = cTx[f])

C9_Witness ==
    /\ cPc = "raw" /\ cTx # Absent
    /\ Has(cTx, "gasPrice") /\ cTx.gasPrice = 0 /\ ~Has(cTx, "maxFeePerGas")
    /\ Has(cRaw, "gasPrice") /\ ~Has(cRaw, "maxFeePerGas")

\* C10: fromTransactionRaw of a raw transaction with a malformed numeric
\* field fails: it never returns a transaction.
C10_MalformedRawFails == cPc = "parsed" => ~Malformed(cRaw)

(***************************************************************************)
(* Properties of the prepare pipeline, checked under Spec.                 *)
(***************************************************************************)
Legacy(tx) ==
    /\ tx.type = 0 /\ Has(tx, "gasPrice")
    /\ ~Has(tx, "maxFeePerGas") /\ ~Has(tx, "maxPriorityFeePerGas")

FeeMarket(tx) ==
    /\ tx.type = 2 /\ Has(tx, "maxFeePerGas") /\ Has(tx, "maxPriorityFeePerGas")
    /\ ~Has(tx, "gasPrice")

\* The type and fee fields the snapshot fd calls for are those of tx.
ClassifiedBy(tx, fd) ==
    IF Has(fd, "maxFeePerGas") /\ Has(fd, "maxPriorityFeePerGas")
    THEN /\ FeeMarket(tx)
         /\ tx.maxFeePerGas = fd.maxFeePerGas
         /\ tx.maxPriorityFeePerGas = fd.maxPriorityFeePerGas
    ELSE /\ Legacy(tx)
         /\ tx.gasPrice = IF Has(fd, "gasPrice") THEN fd.gasPrice ELSE 0

NotFee(tx) == DOMAIN tx \ (FeeFields \cup {"type"})

C3_ExactlyOneFeeModel == typed # Absent => (Legacy(typed) # FeeMarket(typed))

C3_Witness == typed # Absent /\ FeeMarket(typed) /\ Has(draft0, "gasPrice")

\* C4: getTypedTransaction selects fee-market, with the snapshot's two
\* fields, if and only if the snapshot carries both; otherwise legacy with
\* the snapshot's gasPrice, or zero when it has none.
C4_FeeMarketIffBoth ==
    typed # Absent =>
        /\ typed.type = 2 <=>
              (Has(feeData, "maxFeePerGas") /\ Has(feeData, "maxPriorityFeePerGas"))
        /\ ClassifiedBy(typed, feeData)

C4_Witness ==
    /\ typed # Absent
    /\ Has(feeData, "maxFeePerGas") /\ ~Has(feeData, "maxPriorityFeePerGas")
    /\ ~Has(feeData, "gasPrice")
    /\ typed.type = 0 /\ typed.gasPrice = 0

\* C5: a prepared coin transfer with useAllAmount has amount B - F, B the
\* account balance and F the fee estimated from the classified transaction,
\* so that amount plus F is B.
C5_UseAllAmountCoin ==
    (pc = "Prepared" /\ path = "coin" /\ draft0.useAllAmount) =>
        /\ result.amount = store.balance - getEstimatedFees(typed)
        /\ result.amount + getEstimatedFees(typed) = store.balance

C5_Witness ==
    /\ pc = "Prepared" /\ path = "coin" /\ draft0.useAllAmount
    /\ getEstimatedFees(typed) > 0 /\ result.amount > 0
    /\ result.amount # draft0.amount

\* C6: a prepared token transfer with useAllAmount has the full token
\* balance as its amount.
C6_UseAllAmountToken ==
    (pc = "Prepared" /\ path = "token" /\ draft0.useAllAmount) =>
        result.amount = store.tokenBalance

\* C7: when prepareTransaction has returned or failed, the caller's draft
\* has the fields and values it had before the call.
C7_DraftNotMutated == pc \in {"Prepared", "Unchanged", "Failed"} => draft = draft0

\* The errors the two checks report in the state, once the balance is read.
RecipientErrors ==
    IF path = "token"
    THEN validateRecipient(AccountIdentity, Spread(typed, [amount |-> 0]))
    ELSE validateRecipient(Account(store.balance), typed)

AmountErrors ==
    IF path = "token"
    THEN validateAmount(TokenAccount(store.tokenBalance),
                        Spread(typed, [amount |-> 0]),
                        tokenAmount(store.tokenBalance, typed))
    ELSE LET amount == coinAmount(store.balance, typed)
         IN  validateAmount(Account(store.balance),
                            Spread(typed, [amount |-> amount]),
                            amount + getEstimatedFees(typed))

ValidationPassed == ~HasErrors(RecipientErrors) /\ ~HasErrors(AmountErrors)

StepWithoutFailure ==
    FeeDataFetched \/ Classify \/ PrepareCoin \/ PrepareToken \/ GasEstimated

\* C13: a call fails only with the error of a failed network request; as long
\* as no request has failed the call either can take its next step or has
\* returned a transaction: the prepared one when the checks passed, the
\* unchanged one when a check reported an error.
C13_ValidationNeverThrows ==
    /\ error # "" => netError # ""
    /\ pc = "Failed" => error # ""
    /\ netError = "" =>
          /\ pc \notin {"Prepared", "Unchanged"} => ENABLED StepWithoutFailure
          /\ pc = "Prepared" => (result # Absent /\ ValidationPassed)
          /\ pc = "Unchanged" => (result # Absent /\ ~ValidationPassed)

C13_Witness ==
    /\ pc = "Unchanged" /\ path = "coin"
    /\ draft0.recipient = "" /\ draft0.amount = 0 /\ draft0.useAllAmount
    /\ store.balance < getEstimatedFees(typed)
    /\ result # Absent /\ error = ""

\* C14: when a network request fails the call fails with the request's
\* error and returns no transaction, then or later; each of the two requests
\* is issued at most once.
C14_NetworkFailurePropagates ==
    /\ feeReqs <= 1 /\ gasReqs <= 1
    /\ netError # "" =>
          /\ pc = "Failed" /\ error = netError
          /\ result = Absent /\ inFlight = {}
          /\ ~ENABLED Next

C14_Witness ==
    /\ pc = "Failed" /\ netError = "Timeout" /\ error = "Timeout"
    /\ feeReqs = 1 /\ gasReqs = 1

\* C16: on the coin path the gas estimate is requested exactly when neither
\* check reports an error, for the classified transaction with the final
\* amount (balance minus fees under useAllAmount), and the transaction
\* returned has the estimate as gasLimit; when a check reports an error no
\* gas estimate is requested.
C16_CoinGasEstimate ==
    (path = "coin" /\ store # Absent) =>
        /\ gasReqs = 1 <=> ValidationPassed
        /\ gasReqs = 1 =>
              /\ gasReq = Spread(typed,
                    [amount |-> IF draft0.useAllAmount
                                THEN store.balance - getEstimatedFees(typed)
                                ELSE draft0.amount])
        /\ pc = "Prepared" =>
              /\ result.gasLimit = estimate
              /\ result.amount = gasReq.amount
        /\ pc = "Unchanged" => (gasReqs = 0 /\ gasReq = Absent)

C16_Witness ==
    /\ pc = "Prepared" /\ path = "coin" /\ draft0.useAllAmount
    /\ gasReq.amount # draft0.amount
    /\ estimate # draft0.gasLimit /\ result.gasLimit = estimate

\* C17: on the token path the gas estimate is requested for a transaction
\* whose recipient is the token contract and whose data is the transfer
\* payload (the draft's recipient, the amount); the transaction returned
\* carries that payload and the estimate as gasLimit, and its recipient is
\* the draft's, not the contract.
C17_TokenGasEstimate ==
    (path = "token" /\ gasReqs = 1) =>
        /\ gasReq.recipient = Contract
        /\ gasReq.data = [selector |-> "transfer", to |-> draft0.recipient,
                          value |-> IF draft0.useAllAmount
                                    THEN store.tokenBalance ELSE draft0.amount]
        /\ pc = "Prepared" =>
              /\ result.data = gasReq.data
              /\ result.gasLimit = estimate
              /\ result.recipient = draft0.recipient
              /\ result.recipient # Contract

C17_Witness ==
    /\ pc = "Prepared" /\ path = "token"
    /\ gasReq.recipient = Contract /\ result.recipient = Bob
    /\ estimate # draft0.gasLimit

\* C18: the fee data has arrived before the transaction is classified, the
\* transaction is classified before the checks read a balance, a gas
\* estimate is requested only after classification and carries the type and
\* fee fields of the classified transaction, and the two requests are never
\* in flight together.
C18_StageOrder ==
    /\ typed # Absent => (pc # "Draft" /\ "feeData" \notin inFlight)
    /\ store # Absent => typed # Absent
    /\ gasReqs > 0 =>
          /\ typed # Absent /\ gasReq # Absent
          /\ \A f \in FeeFields \cup {"type"} :
                /\ Has(gasReq, f) <=> Has(typed, f)
                /\ Has(typed, f) => (Has(gasReq, f) /\ gasReq[f] = typed[f])
    /\ inFlight # {"feeData", "gasEstimate"}
    /\ "gasEstimate" \in inFlight => pc = "GasRequested"

C18_Witness ==
    /\ pc = "GasRequested" /\ inFlight = {"gasEstimate"} /\ path = "token"
    /\ draft0.type = 0 /\ typed.type = 2 /\ gasReq.type = 2

\* C19: the call takes the token path exactly when the draft's subAccountId
\* resolves to a sub-account of type TokenAccount; with no subAccountId, one
\* that matches no sub-account, or one of another type it takes the coin
\* path, reads the base account's balance and checks the amount against it.
C19_TokenPathIffTokenAccount ==
    path # "" =>
        LET subAccount == findSubAccountById(AccountIdentity.subAccounts,
                                             subAccountIdOf(draft0))
            resolves == subAccount # Absent /\ subAccount.type = "TokenAccount"
        IN  /\ path = "token" <=> resolves
            /\ path = "coin" <=> ~resolves
            /\ store # Absent =>
                  /\ Has(store, "tokenBalance") <=> resolves
                  /\ Has(store, "balance") <=> ~resolves
            /\ ( /\ ~resolves /\ store # Absent /\ ~draft0.useAllAmount
                 /\ draft0.amount + getEstimatedFees(typed) > store.balance ) =>
                  pc = "Unchanged"

C19_Witness ==
    /\ path = "coin" /\ pc = "Unchanged"
    /\ Has(draft0, "subAccountId") /\ draft0.subAccountId = "child"
    /\ draft0.recipient = Bob /\ draft0.amount > store.balance

\* C21: a prepared coin transfer with useAllAmount stays within the balance:
\* its amount plus the fee of the returned transaction (its own gasLimit,
\* the merged estimate, times its per-gas price) is at most the account
\* balance, whatever the gas estimate.
C21_UseAllAmountWithinBalance ==
    (pc = "Prepared" /\ path = "coin" /\ draft0.useAllAmount) =>
        result.amount + getEstimatedFees(result) <= store.balance

(***************************************************************************)
(* Properties of the signing operations, checked under SpecSign.           *)
(***************************************************************************)
\* C12: for a transaction whose subAccountId resolves to a sub-account of
\* type TokenAccount prepareForSignOperation returns the input with the
\* recipient replaced by the token's contract address and every other
\* field the same; for every other transaction it returns the input with
\* all its fields, recipient included.
C12_PrepareForSignRedirectsTokens ==
    sPc = "prepared" =>
        LET subAccount == findSubAccountById(AccountIdentity.subAccounts,
                                             subAccountIdOf(sTx))
        IN  IF subAccount # Absent /\ subAccount.type = "TokenAccount"
            THEN /\ DOMAIN sOut = DOMAIN sTx
                 /\ sOut.recipient = subAccount.token.contractAddress
                 /\ \A f \in DOMAIN sTx \ {"recipient"} : sOut[f] = sTx[f]
            ELSE sOut = sTx

C12_Witness ==
    /\ sPc = "prepared"
    /\ Has(sTx, "subAccountId") /\ sTx.subAccountId = "tok"
    /\ sTx.recipient = Bob /\ sOut.recipient = Contract

\* C20: transactionToUnsignedTransaction asks the network for the
\* transaction count of the account's fresh address and returns the input
\* with that count as nonce and every other field the same; when the
\* request fails the call fails and returns no transaction.
C20_UnsignedTransactionNonce ==
    /\ sPc \in {"getTransactionCount", "unsigned", "failed"} =>
          sReq = AccountIdentity.freshAddress
    /\ sPc = "unsigned" =>
          /\ sOut.nonce = sNonce
          /\ DOMAIN sOut = DOMAIN sTx \cup {"nonce"}
          /\ \A f \in DOMAIN sTx \ {"nonce"} : sOut[f] = sTx[f]
    /\ sPc = "failed" => (sOut = Absent /\ sError \in NetworkErrors)
    /\ sError # "" => (sPc = "failed" /\ sOut = Absent)

C20_Witness ==
    /\ sPc = "unsigned" /\ sNonce = MaxNonce /\ sTx.nonce # sNonce
    /\ sOut.nonce = sNonce /\ sOut.recipient = sTx.recipient

(***************************************************************************)
(* Properties of two concurrent invocations, checked under SpecConc.       *)
(***************************************************************************)
\* The state of one invocation run alone on the draft d with the fee
\* snapshot fd and the balance read b, at its return or its gas request.
AloneAsked(d, fd, b) ==
    LET typedTransaction == getTypedTransaction(d, fd)
        subAccount == findSubAccountById(AccountIdentity.subAccounts,
                                         subAccountIdOf(d))
        start == Spread(CallStarted(d),
                        [feeData |-> fd,
                         draft |-> getTypedTransactionArgument(d, fd),
                         path |-> IF isTokenTransaction(subAccount)
                                  THEN "token" ELSE "coin"])
    IN  IF isTokenTransaction(subAccount)
        THEN TokenCall(start, typedTransaction, b)
        ELSE CoinCall(start, typedTransaction, b)

\* What it returns when the gas estimate g arrives.
AloneReturned(d, fd, b, g) ==
    LET asked == AloneAsked(d, fd, b)
        typedTransaction == getTypedTransaction(d, fd)
    IN  IF asked.path = "token"
        THEN tokenPrepared(typedTransaction, asked.gasReq.data, g)
        ELSE coinPrepared(asked.gasReq, asked.gasReq.amount, g)

BalanceRead(c) ==
    IF Has(c.store, "tokenBalance") THEN c.store.tokenBalance ELSE c.store.balance

\* C15: of two invocations on two draft objects, interleaved in any order at
\* their awaits, each returns what it returns when run alone on its draft
\* with the same network answers and balance, and each draft is as its own
\* invocation alone leaves it.
C15_ConcurrentCallsIndependent ==
    \A p \in Calls :
        LET c == calls[p]
        IN  /\ c.pc = "Draft" => c.draft = c.draft0
            /\ c.pc \in {"GasRequested", "Unchanged"} =>
                  c = AloneAsked(c.draft0, c.feeData, BalanceRead(c))
            /\ c.pc = "Prepared" =>
                  LET asked == AloneAsked(c.draft0, c.feeData, BalanceRead(c))
                  IN  /\ asked.pc = "GasRequested"
                      /\ c.draft = asked.draft
                      /\ c.result = AloneReturned(c.draft0, c.feeData,
                                                  BalanceRead(c), c.estimate)

C15_Witness ==
    /\ calls[1].pc = "Prepared" /\ calls[1].path = "token"
    /\ calls[2].pc = "GasRequested"
    /\ calls[1].draft0 # calls[2].draft0
    /\ typedTransactions[1] # typedTransactions[2]
    /\ calls[1].result.useAllAmount # typedTransactions[2].useAllAmount

(***************************************************************************)
(* Properties of the devices reducer, checked under SpecDevices.           *)
(***************************************************************************)
\* C22: ADD_DEVICE with a device whose deviceId is that of no device of the
\* list appends the device to the list and makes it the currentDevice,
\* whether or not a currentDevice was set.
C22_AddNewDeviceAppends ==
    ( /\ dAction.type = "ADD_DEVICE"
      /\ \A i \in 1..Len(dPrev.devices) :
            dPrev.devices[i].deviceId # dAction.payload.deviceId ) =>
        /\ dState.devices = Append(dPrev.devices, dAction.payload)
        /\ dState.currentDevice = dAction.payload

\* C23: after any sequence of RESET_DEVICES, ADD_DEVICE and REMOVE_DEVICE
\* from the initial state, currentDevice is null or a device of the list,
\* and no two entries of the list have the same deviceId.
C23_CurrentDeviceInList ==
    dListOnly =>
        /\ \/ dState.currentDevice = Absent
           \/ \E i \in 1..Len(dState.devices) : dState.devices[i] = dState.currentDevice
        /\ \A i, j \in 1..Len(dState.devices) :
              dState.devices[i].deviceId = dState.devices[j].deviceId => i = j

C23_Witness ==
    /\ dListOnly /\ dAction.type = "REMOVE_DEVICE"
    /\ dPrev.currentDevice # Absent /\ dPrev.currentDevice # dAction.payload
    /\ dState.currentDevice = Absent /\ dState.devices = << >>

(***************************************************************************)
(* Properties of RemoteLiveAppProvider, checked under SpecManifests.       *)
(***************************************************************************)
PendingFetches == {k \in 1..Len(mFetches) : mFetches[k].status = "pending"}

ResolvedFetches == {k \in 1..Len(mFetches) : mFetches[k].status = "resolved"}

\* C24: isLoading is true in every state in which a manifest fetch is in
\* flight; it is false only when none is.
C24_LoadingWhileInFlight == PendingFetches # {} => mState.isLoading

\* C25: once no updateManifests call is in flight, state.value holds the
\* manifests of the most recently started call that succeeded.
C25_LatestFetchWins ==
    (PendingFetches = {} /\ ResolvedFetches # {}) =>
        LET latest == CHOOSE k \in ResolvedFetches : \A j \in ResolvedFetches : j <= k
        IN  mState.value = loadedState(mFetches[latest].manifests).value

(***************************************************************************)
(* Properties of useWalletAPIServer, checked under SpecWallet.             *)
(***************************************************************************)
\* C26: a device.transport request is rejected with 'Device already opened'
\* only when a device transport is open; when none is open the request goes
\* on to the UI hook.
C26_AlreadyOpenedOnlyWhenOpen ==
    (wReq # Absent /\ wReq.kind = "device.transport") =>
        /\ wResp = Rejected("Device already opened") => wReq.transportOpen
        /\ ~wReq.transportOpen => Invoked("device.transport")

\* C27: an account.request naming exactly one currency id, which is that of
\* no known currency, is rejected with currency-not-found and the UI
\* account-request hook is not invoked for it.
C27_UnknownCurrencySkipsUi ==
    ( /\ wReq # Absent /\ wReq.kind = "account.request"
      /\ Len(wReq.currencies) = 1
      /\ findCryptoCurrencyById(wReq.currencies[1]) = Absent ) =>
        /\ wResp = Rejected([code |-> "CurrencyNotFound", id |-> wReq.currencies[1]])
        /\ ~Invoked("account.request")

\* C28: in transaction.signAndBroadcast the UI broadcast hook is invoked only
\* after signing succeeded and, unless broadcasting is disabled, after
\* bridge.broadcast succeeded; when signing or broadcasting fails the
\* request is rejected with that error, the UI broadcast hook is not invoked
\* and no hash is returned; a hash is returned only with the hook invoked.
C28_BroadcastHookAfterSuccess ==
    (wReq # Absent /\ wReq.kind = "transaction.signAndBroadcast") =>
        /\ Invoked("transaction.broadcast") =>
              /\ wSign = "succeeded"
              /\ ~wReq.disableBroadcast => wBroadcast = "succeeded"
        /\ (wSign = "failed" \/ wBroadcast = "failed") =>
              /\ wResp = Rejected(wFailure)
              /\ ~Invoked("transaction.broadcast")
        /\ (wResp # Absent /\ wResp.status = "resolved") =>
              /\ Invoked("transaction.broadcast")
              /\ wResp.value = wUiCalls[Len(wUiCalls)].operation.hash

C28_Witness ==
    /\ wReq # Absent /\ wReq.kind = "transaction.signAndBroadcast"
    /\ ~wReq.disableBroadcast /\ wSign = "succeeded" /\ wBroadcast = "succeeded"
    /\ Invoked("transaction.broadcast")
    /\ wResp = Resolved("h2") /\ wReq.signedOperation.hash = "h1"

(***************************************************************************)
(* Properties of updateGateCheckRun, checked under SpecGate.               *)
(***************************************************************************)
\* The watched runs: those of a known workflow, the gate excluded.
Watched ==
    {i \in 1..Len(gRuns) :
        gRuns[i].name \in WORKFLOWS /\ gRuns[i].name # GATE_CHECK_RUN_NAME}

\* The place of a conclusion in the order success < pending < ... < failure.
Rank(c) == CHOOSE i \in 1..Len(conclusions) : conclusions[i] = c

\* C29: the gate check run is marked completed if and only if every watched
\* run is completed; the conclusion then reported is the worst conclusion of
\* the watched runs in the order success < ... < failure (success when none
\* is watched); with no gate check run in the suite no update is sent.
C29_GateAggregates ==
    /\ gRuns = Absent => gUpdate = Absent
    /\ gRuns # Absent =>
          /\ gUpdate # Absent <=>
                \E i \in 1..Len(gRuns) : gRuns[i].name = GATE_CHECK_RUN_NAME
          /\ gUpdate # Absent =>
                /\ gUpdate.status = "completed" <=>
                      \A i \in Watched : gRuns[i].status = "completed"
                /\ gUpdate.status = "completed" =>
                      /\ \A i \in Watched :
                            Rank(gRuns[i].conclusion) <= Rank(gUpdate.conclusion)
                      /\ \/ \E i \in Watched : gRuns[i].conclusion = gUpdate.conclusion
                         \/ Watched = {} /\ gUpdate.conclusion = "success"

C29_Witness ==
    /\ gPc = "done" /\ gUpdate # Absent /\ Len(gRuns) = 3
    /\ gRuns[1].name = "build" /\ gRuns[1].conclusion = "failure"
    /\ gRuns[2].name = "test" /\ gRuns[2].conclusion = "success"
    /\ gRuns[3].name = GATE_CHECK_RUN_NAME
    /\ gUpdate.status = "completed" /\ gUpdate.conclusion = "failure"

=============================================================================
